---------------------------- MODULE Spec2Model ----------------------------
(***************************************************************************)
(* A model of easy-k8s's API map (src/apimap.js): the version comparator   *)
(* compareAPIVersions, the fold mapGroupResources of a discovery response  *)
(* into the module-level cache apiMaps, the lookup getGroupInfo and the    *)
(* discovery run buildAPIMap.                                              *)
(*                                                                         *)
(* JavaScript strings are modelled as sequences of one-character strings,  *)
(* so that the regular expressions, toLowerCase, indexOf('/') and the      *)
(* string comparison operators are computed character by character, as the *)
(* code computes them.                                                     *)
(***************************************************************************)
EXTENDS Integers, Sequences, FiniteSets, TLC

VARIABLES
    apiMaps,    \* src/apimap.js:10, cluster version -> resource name -> info
    last,       \* the call that has just returned: its arguments and result
    build,      \* the state of the buildAPIMap promise chain
    chain       \* the state of the buildChain call under way

vars == <<apiMaps, last, build, chain>>

---------------------------------------------------------------------------
(* Bounds of the model.                                                    *)

\* Version numerals are the decimal numerals of 0 .. MaxNum.
MaxNum == 10

\* A discovery response lists at most MaxRes resource descriptors.
MaxRes == 2

\* An API group of a modelled cluster serves at most MaxVersions versions.
MaxVersions == 2

---------------------------------------------------------------------------
(* JavaScript values.                                                      *)

\* The value undefined of a regular expression's capture group that did not
\* take part in the match, and of an argument that was not passed.  A
\* captured group and a truthy string are never empty, so the empty sequence
\* is free to stand for it; an empty-string argument is falsy like undefined.
Undefined == << >>

\* The result null of RegExp.exec when the string does not match.
NoMatch == << >>

LowerChars ==
    << "a", "b", "c", "d", "e", "f", "g", "h", "i", "j", "k", "l", "m",
       "n", "o", "p", "q", "r", "s", "t", "u", "v", "w", "x", "y", "z" >>

UpperChars ==
    << "A", "B", "C", "D", "E", "F", "G", "H", "I", "J", "K", "L", "M",
       "N", "O", "P", "Q", "R", "S", "T", "U", "V", "W", "X", "Y", "Z" >>

DigitChars == << "0", "1", "2", "3", "4", "5", "6", "7", "8", "9" >>

\* The character classes [a-z] and [0-9] of the regular expressions.
Lower == { LowerChars[i] : i \in 1..26 }
Digits == { DigitChars[i] : i \in 1..10 }

\* The UTF-16 code unit order of the digit characters ("0" < "1" < ... < "9").
CodeUnit(c) == CHOOSE i \in 0..9 : DigitChars[i + 1] = c

\* The relational operator < of JavaScript on two strings of digits: the
\* strings are compared code unit by code unit, a proper prefix being smaller.
StringLess(s, t) ==
    \E k \in 0..Len(s) :
        /\ k <= Len(t)
        /\ \A i \in 1..k : s[i] = t[i]
        /\ \/ k = Len(s) /\ k < Len(t)
           \/ k < Len(s) /\ k < Len(t) /\ CodeUnit(s[k + 1]) < CodeUnit(t[k + 1])

\* a < b of JavaScript where a and b are strings of digits or undefined: when
\* an operand is undefined it converts to NaN and the comparison is false.
JsLess(a, b) == a # Undefined /\ b # Undefined /\ StringLess(a, b)

\* a > b of JavaScript on the same operands.
JsGreater(a, b) == JsLess(b, a)

\* The length of the longest run of characters of class cls in s from index from.
RECURSIVE RunLen(_, _, _)
RunLen(s, from, cls) ==
    IF from > Len(s) \/ s[from] \notin cls THEN 0
    ELSE 1 + RunLen(s, from + 1, cls)

\* String.prototype.toLowerCase on one character and on a string.
LowerOf(c) ==
    IF \E i \in 1..26 : UpperChars[i] = c
    THEN LowerChars[CHOOSE i \in 1..26 : UpperChars[i] = c]
    ELSE c

ToLowerCase(s) == [i \in 1..Len(s) |-> LowerOf(s[i])]

---------------------------------------------------------------------------
(* compareAPIVersions, src/apimap.js:65-87.                                *)

\* verRegex.exec(ver), /([a-z]+)([0-9]+)([a-z]+)?([0-9]+)?/, for a string that
\* contains a run of lower-case letters followed by a digit (every version
\* token does): the match starts at the first such run, each group is greedy,
\* and an optional group that matches nothing is undefined.
VerRegexExec(ver) ==
    LET starts == { i \in 1..Len(ver) :
                      /\ ver[i] \in Lower
                      /\ i + RunLen(ver, i, Lower) <= Len(ver)
                      /\ ver[i + RunLen(ver, i, Lower)] \in Digits }
        s1 == CHOOSE i \in starts : \A j \in starts : i <= j
        s2 == s1 + RunLen(ver, s1, Lower)
        s3 == s2 + RunLen(ver, s2, Digits)
        s4 == s3 + RunLen(ver, s3, Lower)
        s5 == s4 + RunLen(ver, s4, Digits)
    IN  [ g1 |-> SubSeq(ver, s1, s2 - 1),
          g2 |-> SubSeq(ver, s2, s3 - 1),
          g3 |-> SubSeq(ver, s3, s4 - 1),
          g4 |-> SubSeq(ver, s4, s5 - 1) ]

Alpha == << "a", "l", "p", "h", "a" >>
Beta == << "b", "e", "t", "a" >>

\* A variant that orders by the minor numeral before it looks at the labels.
CompareAPIVersions_MinorFirst(ver1, ver2) ==
    LET ver1Extraction == VerRegexExec(ver1)
        ver2Extraction == VerRegexExec(ver2)
        ver1Major == ver1Extraction.g2
        ver1MinorStr == ver1Extraction.g3
        ver1Minor == ver1Extraction.g4
        ver2Major == ver2Extraction.g2
        ver2MinorStr == ver2Extraction.g3
        ver2Minor == ver2Extraction.g4
    IN  IF JsGreater(ver1Major, ver2Major) THEN 1
        ELSE IF JsLess(ver1Major, ver2Major) THEN -1
        ELSE IF JsGreater(ver1Minor, ver2Minor) THEN 1
        ELSE IF JsLess(ver1Minor, ver2Minor) THEN -1
        ELSE IF ver1MinorStr = Beta /\ ver2MinorStr = Alpha THEN 1
        ELSE IF ver1MinorStr = Alpha /\ ver2MinorStr = Beta THEN -1
        ELSE 0

\* A variant whose second test of the labels (line 81) does not look at the
\* label of ver2: an alpha token is lower than any token of its major.
CompareAPIVersions_AlphaAlwaysLower(ver1, ver2) ==
    LET ver1Extraction == VerRegexExec(ver1)
        ver2Extraction == VerRegexExec(ver2)
        ver1Major == ver1Extraction.g2
        ver1MinorStr == ver1Extraction.g3
        ver1Minor == ver1Extraction.g4
        ver2Major == ver2Extraction.g2
        ver2MinorStr == ver2Extraction.g3
        ver2Minor == ver2Extraction.g4
    IN  IF JsGreater(ver1Major, ver2Major) THEN 1
        ELSE IF JsLess(ver1Major, ver2Major) THEN -1
        ELSE IF ver1MinorStr = Beta /\ ver2MinorStr = Alpha THEN 1
        ELSE IF ver1MinorStr = Alpha THEN -1
        ELSE IF JsGreater(ver1Minor, ver2Minor) THEN 1
        ELSE IF JsLess(ver1Minor, ver2Minor) THEN -1
        ELSE 0

\* The numerals are compared as the strings the regular expression captured
\* (src/apimap.js:77-78 and 83-84 apply > and < to the captured groups).
CompareAPIVersions(ver1, ver2) ==
    LET ver1Extraction == VerRegexExec(ver1)
        ver2Extraction == VerRegexExec(ver2)
        ver1Major == ver1Extraction.g2
        ver1MinorStr == ver1Extraction.g3
        ver1Minor == ver1Extraction.g4
        ver2Major == ver2Extraction.g2
        ver2MinorStr == ver2Extraction.g3
        ver2Minor == ver2Extraction.g4
    IN  IF JsGreater(ver1Major, ver2Major) THEN 1
        ELSE IF JsLess(ver1Major, ver2Major) THEN -1
        ELSE IF ver1MinorStr = Beta /\ ver2MinorStr = Alpha THEN 1
        ELSE IF ver1MinorStr = Alpha /\ ver2MinorStr = Beta THEN -1
        ELSE IF JsGreater(ver1Minor, ver2Minor) THEN 1
        ELSE IF JsLess(ver1Minor, ver2Minor) THEN -1
        ELSE 0

---------------------------------------------------------------------------
(* mapGroupResources, src/apimap.js:20-55.                                 *)

\* Whether t matches v[0-9]+([a-z]+[0-9]+)? from its first to its last character.
IsVersion(t) ==
    /\ Len(t) >= 2
    /\ t[1] = "v"
    /\ LET d == RunLen(t, 2, Digits)
           l == RunLen(t, 2 + d, Lower)
           m == RunLen(t, 2 + d + l, Digits)
       IN  /\ d >= 1
           /\ \/ 2 + d > Len(t)
              \/ l >= 1 /\ m >= 1 /\ 2 + d + l + m > Len(t)

\* extractVerRegex.exec(groupVer), /^([^/]+\/)?(v[0-9]+([a-z]+[0-9]+)?)$/:
\* the second group of the match, or NoMatch (exec returns null).  The version
\* part holds no '/', so the optional group prefix ends at the first '/'.
ExtractVer(groupVer) ==
    LET slashes == { i \in 1..Len(groupVer) : groupVer[i] = "/" }
        p == CHOOSE i \in slashes : \A j \in slashes : i <= j
        rest == SubSeq(groupVer, p + 1, Len(groupVer))
    IN  IF slashes = {}
        THEN IF IsVersion(groupVer) THEN groupVer ELSE NoMatch
        ELSE IF p >= 2 /\ IsVersion(rest) THEN rest ELSE NoMatch

\* name.indexOf('/') !== -1
HasSlash(name) == \E i \in 1..Len(name) : name[i] = "/"

\* obj[key] = value on a map of the cache.
Put(m, key, value) == [k \in DOMAIN m \cup {key} |-> IF k = key THEN value ELSE m[k]]

\* A variant without the test of line 42: the preferred version is not kept.
MapResource_NoSticky(m, resource, groupVer, ver, preferredGroupVer) ==
    LET name == resource.name
        mapped == name \in DOMAIN m
        currGroupVer == IF mapped THEN m[name].version ELSE Undefined
        currVer == ExtractVer(currGroupVer)
    IN  IF HasSlash(name) THEN m
        ELSE IF currGroupVer = Undefined \/ CompareAPIVersions(currVer, ver) < 0
        THEN Put(m, name, [version |-> groupVer, namespaced |-> resource.namespaced])
        ELSE m

\* A variant that also replaces the mapping when the tokens compare equal
\* (<= 0 for < 0 on line 46).
MapResource_ReplaceOnTie(m, resource, groupVer, ver, preferredGroupVer) ==
    LET name == resource.name
        mapped == name \in DOMAIN m
        currGroupVer == IF mapped THEN m[name].version ELSE Undefined
        currVer == ExtractVer(currGroupVer)
    IN  IF HasSlash(name) THEN m
        ELSE IF /\ currGroupVer # Undefined
                /\ preferredGroupVer # Undefined
                /\ currGroupVer = preferredGroupVer
        THEN m
        ELSE IF currGroupVer = Undefined \/ CompareAPIVersions(currVer, ver) <= 0
        THEN Put(m, name, [version |-> groupVer, namespaced |-> resource.namespaced])
        ELSE m

\* A variant without the test of line 32: sub-routes are mapped like resources.
MapResource_NoSlashSkip(m, resource, groupVer, ver, preferredGroupVer) ==
    LET name == resource.name
        mapped == name \in DOMAIN m
        currGroupVer == IF mapped THEN m[name].version ELSE Undefined
        currVer == ExtractVer(currGroupVer)
    IN  IF /\ currGroupVer # Undefined
           /\ preferredGroupVer # Undefined
           /\ currGroupVer = preferredGroupVer
        THEN m
        ELSE IF currGroupVer = Undefined \/ CompareAPIVersions(currVer, ver) < 0
        THEN Put(m, name, [version |-> groupVer, namespaced |-> resource.namespaced])
        ELSE m

\* A variant that stores the preferred version of the group, when there is
\* one, in place of the version of the response.
MapResource_StorePreferred(m, resource, groupVer, ver, preferredGroupVer) ==
    LET name == resource.name
        mapped == name \in DOMAIN m
        currGroupVer == IF mapped THEN m[name].version ELSE Undefined
        currVer == ExtractVer(currGroupVer)
    IN  IF HasSlash(name) THEN m
        ELSE IF /\ currGroupVer # Undefined
                /\ preferredGroupVer # Undefined
                /\ currGroupVer = preferredGroupVer
        THEN m
        ELSE IF currGroupVer = Undefined \/ CompareAPIVersions(currVer, ver) < 0
        THEN Put(m, name, [version |-> IF preferredGroupVer # Undefined
                                       THEN preferredGroupVer ELSE groupVer,
                           namespaced |-> resource.namespaced])
        ELSE m

\* One iteration of the loop over the resources (src/apimap.js:28-52) on the
\* map m of the cluster version.
MapResource(m, resource, groupVer, ver, preferredGroupVer) ==
    LET name == resource.name
        mapped == name \in DOMAIN m
        currGroupVer == IF mapped THEN m[name].version ELSE Undefined
        currVer == ExtractVer(currGroupVer)
    IN  IF HasSlash(name) THEN m
        ELSE IF /\ currGroupVer # Undefined
                /\ preferredGroupVer # Undefined
                /\ currGroupVer = preferredGroupVer
        THEN m
        ELSE IF currGroupVer = Undefined \/ CompareAPIVersions(currVer, ver) < 0
        THEN Put(m, name, [version |-> groupVer, namespaced |-> resource.namespaced])
        ELSE m

\* The loop over resources[i..], in the order of the response.
RECURSIVE MapResourcesFrom(_, _, _, _, _, _)
MapResourcesFrom(m, resources, i, groupVer, ver, preferredGroupVer) ==
    IF i > Len(resources) THEN m
    ELSE MapResourcesFrom(MapResource(m, resources[i], groupVer, ver, preferredGroupVer),
                          resources, i + 1, groupVer, ver, preferredGroupVer)

\* The empty object {}.
EmptyMap == << >>

\* A variant that returns right after it has created the entry of a cluster
\* version it sees for the first time, without folding the response.
MapGroupResources_CreateOnly(maps, clusterVer, resourcesResp, preferredGroupVer) ==
    LET groupVer == resourcesResp.groupVersion
        ver == ExtractVer(groupVer)
    IN  IF ver = NoMatch
        THEN [threw |-> TRUE, maps |-> maps]
        ELSE IF clusterVer \notin DOMAIN maps
        THEN [threw |-> FALSE, maps |-> Put(maps, clusterVer, EmptyMap)]
        ELSE [threw |-> FALSE,
              maps |-> [maps EXCEPT ![clusterVer] =
                          MapResourcesFrom(@, resourcesResp.resources, 1,
                                           groupVer, ver, preferredGroupVer)]]

\* A variant without the test of line 26: every fold starts from a new
\* object for the cluster version.
MapGroupResources_Reset(maps, clusterVer, resourcesResp, preferredGroupVer) ==
    LET groupVer == resourcesResp.groupVersion
        ver == ExtractVer(groupVer)
    IN  IF ver = NoMatch
        THEN [threw |-> TRUE, maps |-> maps]
        ELSE [threw |-> FALSE,
              maps |-> Put(maps, clusterVer,
                           MapResourcesFrom(EmptyMap, resourcesResp.resources, 1,
                                            groupVer, ver, preferredGroupVer))]

\* A variant with line 26 before line 23: the entry of the cluster version
\* is created before the groupVersion is parsed.
MapGroupResources_CreateBeforeParse(maps, clusterVer, resourcesResp, preferredGroupVer) ==
    LET groupVer == resourcesResp.groupVersion
        ver == ExtractVer(groupVer)
        created == IF clusterVer \in DOMAIN maps THEN maps
                   ELSE Put(maps, clusterVer, EmptyMap)
    IN  IF ver = NoMatch
        THEN [threw |-> TRUE, maps |-> created]
        ELSE [threw |-> FALSE,
              maps |-> [created EXCEPT ![clusterVer] =
                          MapResourcesFrom(@, resourcesResp.resources, 1,
                                           groupVer, ver, preferredGroupVer)]]

\* A variant in which the cluster versions share one object: a fold writes
\* the mappings into the map of every cluster version of the cache.
MapGroupResources_SharedMap(maps, clusterVer, resourcesResp, preferredGroupVer) ==
    LET groupVer == resourcesResp.groupVersion
        ver == ExtractVer(groupVer)
        created == IF clusterVer \in DOMAIN maps THEN maps
                   ELSE Put(maps, clusterVer, EmptyMap)
    IN  IF ver = NoMatch
        THEN [threw |-> TRUE, maps |-> maps]
        ELSE [threw |-> FALSE,
              maps |-> [k \in DOMAIN created |->
                          MapResourcesFrom(created[k], resourcesResp.resources, 1,
                                           groupVer, ver, preferredGroupVer)]]

\* The call on the cache maps: the cache it leaves, and whether it threw.  A
\* groupVersion that does not match makes line 23 throw a TypeError (null[2])
\* before line 26 touches the cache.
MapGroupResources(maps, clusterVer, resourcesResp, preferredGroupVer) ==
    LET groupVer == resourcesResp.groupVersion
        ver == ExtractVer(groupVer)
        created == IF clusterVer \in DOMAIN maps THEN maps
                   ELSE Put(maps, clusterVer, EmptyMap)
    IN  IF ver = NoMatch
        THEN [threw |-> TRUE, maps |-> maps]
        ELSE [threw |-> FALSE,
              maps |-> [created EXCEPT ![clusterVer] =
                          MapResourcesFrom(@, resourcesResp.resources, 1,
                                           groupVer, ver, preferredGroupVer)]]

---------------------------------------------------------------------------
(* getGroupInfo, src/apimap.js:100-125.                                    *)

\* The arguments: a string, undefined, or a value of another type.
JsString(s) == [type |-> "string", str |-> s]
JsUndefined == [type |-> "undefined", str |-> << >>]
JsNumber == [type |-> "number", str |-> << >>]

\* A non-empty string and a non-zero number are truthy.
Truthy(v) == v.type = "number" \/ (v.type = "string" /\ v.str # << >>)

\* The results: undefined, one resource's info object, or the whole map of
\* the cluster version.
RetUndefined == [kind |-> "undefined"]
RetInfo(info) == [kind |-> "info", info |-> info]
RetMap(m) == [kind |-> "map", map |-> m]

\* A variant without the retry of lines 111-113 with the plural.
GetGroupInfo_NoPlural(maps, clusterVersion, resourceType) ==
    IF ~Truthy(clusterVersion) \/ clusterVersion.type # "string" THEN RetUndefined
    ELSE IF ~Truthy(resourceType) \/ resourceType.type # "string" THEN RetUndefined
    ELSE LET lowered == ToLowerCase(resourceType.str)
         IN  IF clusterVersion.str \in DOMAIN maps
             THEN LET m == maps[clusterVersion.str]
                  IN  IF lowered \in DOMAIN m THEN RetInfo(m[lowered])
                      ELSE RetMap(m)
             ELSE RetUndefined

\* A variant without the test of line 107: an unknown cluster version is
\* treated as one that maps nothing.
GetGroupInfo_UnknownAsEmpty(maps, clusterVersion, resourceType) ==
    IF ~Truthy(clusterVersion) \/ clusterVersion.type # "string" THEN RetUndefined
    ELSE IF ~Truthy(resourceType) \/ resourceType.type # "string" THEN RetUndefined
    ELSE LET lowered == ToLowerCase(resourceType.str)
             plural == lowered \o << "s" >>
             m == IF clusterVersion.str \in DOMAIN maps
                  THEN maps[clusterVersion.str] ELSE << >>
         IN  IF lowered \in DOMAIN m THEN RetInfo(m[lowered])
             ELSE IF plural \in DOMAIN m THEN RetInfo(m[plural])
             ELSE RetMap(m)

\* A variant without lines 116-118: a resource that is not mapped gives
\* undefined.
GetGroupInfo_NoDump(maps, clusterVersion, resourceType) ==
    IF ~Truthy(clusterVersion) \/ clusterVersion.type # "string" THEN RetUndefined
    ELSE IF ~Truthy(resourceType) \/ resourceType.type # "string" THEN RetUndefined
    ELSE LET lowered == ToLowerCase(resourceType.str)
             plural == lowered \o << "s" >>
         IN  IF clusterVersion.str \in DOMAIN maps
             THEN LET m == maps[clusterVersion.str]
                  IN  IF lowered \in DOMAIN m THEN RetInfo(m[lowered])
                      ELSE IF plural \in DOMAIN m THEN RetInfo(m[plural])
                      ELSE RetUndefined
             ELSE RetUndefined

\* A variant that tries the plural before the name as given.
GetGroupInfo_PluralFirst(maps, clusterVersion, resourceType) ==
    IF ~Truthy(clusterVersion) \/ clusterVersion.type # "string" THEN RetUndefined
    ELSE IF ~Truthy(resourceType) \/ resourceType.type # "string" THEN RetUndefined
    ELSE LET lowered == ToLowerCase(resourceType.str)
             plural == lowered \o << "s" >>
         IN  IF clusterVersion.str \in DOMAIN maps
             THEN LET m == maps[clusterVersion.str]
                  IN  IF plural \in DOMAIN m THEN RetInfo(m[plural])
                      ELSE IF lowered \in DOMAIN m THEN RetInfo(m[lowered])
                      ELSE RetMap(m)
             ELSE RetUndefined

GetGroupInfo(maps, clusterVersion, resourceType) ==
    IF ~Truthy(clusterVersion) \/ clusterVersion.type # "string" THEN RetUndefined
    ELSE IF ~Truthy(resourceType) \/ resourceType.type # "string" THEN RetUndefined
    ELSE LET lowered == ToLowerCase(resourceType.str)
             plural == lowered \o << "s" >>
         IN  IF clusterVersion.str \in DOMAIN maps
             THEN LET m == maps[clusterVersion.str]
                  IN  IF lowered \in DOMAIN m THEN RetInfo(m[lowered])
                      ELSE IF plural \in DOMAIN m THEN RetInfo(m[plural])
                      ELSE RetMap(m)
             ELSE RetUndefined

---------------------------------------------------------------------------
(* The cache under calls of the fold and of the lookup.                    *)

\* Cluster version keys, as prettifyVersion(gitVersion, 2) gives them.
Key18 == << "1", ".", "8" >>
Key99 == << "9", ".", "9" >>

Pods == << "p", "o", "d", "s" >>
Deployments == << "d", "e", "p", "l", "o", "y", "m", "e", "n", "t", "s" >>
PodsLog == Pods \o << "/", "l", "o", "g" >>
Deployment == << "d", "e", "p", "l", "o", "y", "m", "e", "n", "t" >>

Apps == << "a", "p", "p", "s" >>
CoreV1 == << "v", "1" >>
AppsV1 == Apps \o << "/", "v", "1" >>
AppsV1beta1 == Apps \o << "/", "v", "1" >> \o Beta \o << "1" >>
AppsV1beta2 == Apps \o << "/", "v", "1" >> \o Beta \o << "2" >>
\* A groupVersion outside the grammar.
AppsNoV == Apps \o << "/", "1" >>

\* The entries of the resources of a response: a resource of the core group,
\* one of its sub-resources, and a resource that the groups list as namespaced
\* or not.
Descriptors ==
    { [name |-> Pods, namespaced |-> TRUE],
      [name |-> PodsLog, namespaced |-> TRUE],
      [name |-> Deployments, namespaced |-> TRUE],
      [name |-> Deployments, namespaced |-> FALSE] }
ResourceLists == UNION { [1..n -> Descriptors] : n \in 0..MaxRes }

GroupVersions == {CoreV1, AppsV1beta1, AppsV1beta2, AppsV1, AppsNoV}

\* The bodies of the /api/v1 and /apis/<group>/<version> responses.
Responses == [groupVersion : GroupVersions, resources : ResourceLists]

\* The preferred version of a group; undefined for the core group.
Preferreds == {Undefined, AppsV1, AppsV1beta1}

\* The arguments getGroupInfo is called with.
LookupVersions == {JsString(Key18), JsString(Key99), JsUndefined}
LookupTypes ==
    { JsString(<< "p", "o", "d" >>), JsString(Pods), JsString(<< "P", "o", "d" >>),
      JsString(<< "d", "e", "p", "l", "o", "y", "m", "e", "n", "t" >>),
      JsString(<< "w", "i", "d", "g", "e", "t" >>), JsString(PodsLog),
      JsString(<< >>), JsUndefined, JsNumber }

\* No call of buildAPIMap has been made.
NoBuild ==
    [pc |-> "none", cluster |-> << >>, gitVersion |-> << >>,
     clusterVer |-> Undefined, reqs |-> << >>,
     order |-> << >>, errs |-> 0, outcome |-> [kind |-> "none"]]
NoCall == [op |-> "none"]

\* No call of buildChain is under way.
NoChain == [pc |-> "none"]

Init ==
    /\ apiMaps = << >>
    /\ last = NoCall
    /\ build = NoBuild
    /\ chain = NoChain

\* mapGroupResources(clusterVer, resourcesResp, preferredGroupVer) runs.
Fold ==
    /\ last.op = "none"
    /\ \E resourcesResp \in Responses, preferredGroupVer \in Preferreds :
        /\ LET r == MapGroupResources(apiMaps, Key18, resourcesResp, preferredGroupVer)
           IN  /\ apiMaps' = r.maps
               /\ last' = [op |-> "fold", clusterVer |-> Key18, resp |-> resourcesResp,
                           pref |-> preferredGroupVer, pre |-> apiMaps, threw |-> r.threw]
        /\ UNCHANGED <<build, chain>>

\* A variant that creates the entry of a cluster version it does not know
\* before it reads it.
Lookup_CreatesEntry ==
    /\ last.op = "none"
    /\ \E clusterVersion \in LookupVersions, resourceType \in LookupTypes :
        /\ last' = [op |-> "lookup", clusterVersion |-> clusterVersion,
                    resourceType |-> resourceType,
                    ret |-> GetGroupInfo(apiMaps, clusterVersion, resourceType)]
        /\ apiMaps' = IF /\ Truthy(clusterVersion)
                         /\ clusterVersion.type = "string"
                         /\ clusterVersion.str \notin DOMAIN apiMaps
                      THEN Put(apiMaps, clusterVersion.str, EmptyMap)
                      ELSE apiMaps
        /\ UNCHANGED <<build, chain>>

\* getGroupInfo(clusterVersion, resourceType) runs.
Lookup ==
    /\ last.op = "none"
    /\ \E clusterVersion \in LookupVersions, resourceType \in LookupTypes :
        /\ last' = [op |-> "lookup", clusterVersion |-> clusterVersion,
                    resourceType |-> resourceType,
                    ret |-> GetGroupInfo(apiMaps, clusterVersion, resourceType)]
        /\ UNCHANGED <<apiMaps, build, chain>>

\* The caller takes the result; the next call can start.
Return ==
    /\ last.op \in {"fold", "lookup"}
    /\ last' = NoCall
    /\ UNCHANGED <<apiMaps, build, chain>>

Next == Fold \/ Lookup \/ Return

Spec == Init /\ [][Next]_vars

---------------------------------------------------------------------------
(* The cache under folds into two cluster versions.                        *)

ClusterKeys == {Key18, Key99}

\* The responses folded: at most one descriptor each.
KeyResponses ==
    [groupVersion : {CoreV1, AppsV1beta1, AppsV1beta2, AppsNoV},
     resources : { l \in ResourceLists : Len(l) <= 1 }]

\* mapGroupResources(clusterVer, resourcesResp, preferredGroupVer) runs for
\* one of the cluster versions.
FoldAt ==
    /\ last.op = "none"
    /\ \E clusterVer \in ClusterKeys, resourcesResp \in KeyResponses,
          preferredGroupVer \in Preferreds :
        /\ LET r == MapGroupResources(apiMaps, clusterVer, resourcesResp, preferredGroupVer)
           IN  /\ apiMaps' = r.maps
               /\ last' = [op |-> "fold", clusterVer |-> clusterVer, resp |-> resourcesResp,
                           pref |-> preferredGroupVer, pre |-> apiMaps, threw |-> r.threw]
        /\ UNCHANGED <<build, chain>>

NextKeys == FoldAt \/ Lookup \/ Return

SpecKeys == Init /\ [][NextKeys]_vars

---------------------------------------------------------------------------
(* buildAPIMap, src/apimap.js:136-193, and prettifyVersion,                *)
(* src/utils.js:51-63.                                                     *)

\* verStr.split('.'): the pieces of s between the dots, from index i on,
\* cur being the piece read so far.
RECURSIVE SplitDots(_, _, _)
SplitDots(s, i, cur) ==
    IF i > Len(s) THEN << cur >>
    ELSE IF s[i] = "." THEN << cur >> \o SplitDots(s, i + 1, << >>)
    ELSE SplitDots(s, i + 1, Append(cur, s[i]))

\* The loop of src/utils.js:58-60 from piece i on.
RECURSIVE JoinDots(_, _, _)
JoinDots(versionArr, i, precision) ==
    IF i > precision \/ i > Len(versionArr) THEN << >>
    ELSE (IF i > 1 THEN << "." >> ELSE << >>) \o versionArr[i]
         \o JoinDots(versionArr, i + 1, precision)

PrettifyVersion(verStr, precision) ==
    LET split == SplitDots(verStr, 1, << >>)
        versionArr == IF Len(split[1]) > 0 /\ split[1][1] = "v"
                      THEN [split EXCEPT ![1] = Tail(@)]
                      ELSE split
    IN  JoinDots(versionArr, 1, precision)

\* The gitVersion the modelled cluster reports.
GitVersion == << "v", "1", ".", "8", ".", "3" >>

Extensions == << "e", "x", "t", "e", "n", "s", "i", "o", "n", "s" >>
ExtV1beta1 == Extensions \o << "/", "v", "1" >> \o Beta \o << "1" >>
ExtV1beta2 == Extensions \o << "/", "v", "1" >> \o Beta \o << "2" >>
\* A groupVersion outside the grammar, served by the extensions group.
ExtNoV == Extensions \o << "/", "1" >>

\* A group whose resources are not namespaced.
Rbac ==
    << "r", "b", "a", "c", ".", "a", "u", "t", "h", "o", "r", "i", "z", "a", "t", "i", "o", "n" >>
    \o << ".", "k", "8", "s", ".", "i", "o" >>
RbacV1 == Rbac \o << "/", "v", "1" >>
ClusterRoles == << "c", "l", "u", "s", "t", "e", "r", "r", "o", "l", "e", "s" >>

Roles == << "r", "o", "l", "e", "s" >>

AppsVersions == {AppsV1beta1, AppsV1beta2, AppsV1}
ExtVersions == {ExtV1beta1, ExtV1beta2, ExtNoV}

\* The sequences of 1 to n distinct elements of S.
DistinctSeqs(S, n) ==
    UNION { { q \in [1..k -> S] : \A i, j \in 1..k : i # j => q[i] # q[j] } : k \in 1..n }

\* The entries of the groups of the /apis response: the versions a group
\* serves and the one of them it prefers.
AppsGroups ==
    UNION { { [preferredVersion |-> q[k], versions |-> q] : k \in 1..Len(q) } :
              q \in DistinctSeqs(AppsVersions, MaxVersions) }
ExtGroups == { [preferredVersion |-> v, versions |-> << v >>] : v \in ExtVersions }

\* The groups of a cluster: apps, and on some clusters extensions as well.
Clusters ==
    { << a >> : a \in AppsGroups } \cup { << a, e >> : a \in AppsGroups, e \in ExtGroups }

\* The kubeconfig argument: one that names a cluster, or no object at all.
Kubeconfigs ==
    { [valid |-> TRUE, groups |-> c, gitVersion |-> GitVersion] : c \in Clusters }
    \cup { [valid |-> FALSE, groups |-> << >>, gitVersion |-> << >>] }

\* The resources the API server lists under a group-version.
ServerResources(groupVersion) ==
    IF groupVersion = CoreV1
    THEN << [name |-> Pods, namespaced |-> TRUE] >>
    ELSE IF groupVersion = RbacV1
    THEN << [name |-> ClusterRoles, namespaced |-> FALSE],
            [name |-> Roles, namespaced |-> TRUE] >>
    ELSE << [name |-> Deployments, namespaced |-> TRUE] >>

\* A request in flight: the body its response will carry, the preferred
\* version its .then handler passes to mapGroupResources, whether the
\* response has arrived (fetch) and what the handlers have done with it
\* (status).
Request(groupVersion, preferredGroupVer) ==
    [resp |-> [groupVersion |-> groupVersion, resources |-> ServerResources(groupVersion)],
     pref |-> preferredGroupVer,
     fetch |-> "pending",
     status |-> "pending"]

\* The requests of the inner loop over group.versions (lines 175-183).
VersionRequests(group) ==
    [i \in 1..Len(group.versions) |-> Request(group.versions[i], group.preferredVersion)]

\* The requests of the loop over apiGroups from group g on (lines 172-184).
RECURSIVE GroupRequests(_, _)
GroupRequests(apiGroups, g) ==
    IF g > Len(apiGroups) THEN << >>
    ELSE VersionRequests(apiGroups[g]) \o GroupRequests(apiGroups, g + 1)

Settled(reqs) == \A i \in 1..Len(reqs) : reqs[i].status # "pending"

\* The run after lines 137-147: rejected with status 400 when the kubeconfig
\* is no object, waiting for Client.getVersion otherwise.
Started(kubeconfig) ==
    IF kubeconfig.valid
    THEN [NoBuild EXCEPT !.pc = "version", !.cluster = kubeconfig.groups,
                         !.gitVersion = kubeconfig.gitVersion]
    ELSE [NoBuild EXCEPT !.pc = "rejected",
                         !.outcome = [kind |-> "error", status |-> 400]]

\* buildAPIMap(kubeconfig) is called: lines 137-147.
BuildCall ==
    /\ build.pc = "none"
    /\ \E kubeconfig \in Kubeconfigs : build' = Started(kubeconfig)
    /\ UNCHANGED <<apiMaps, last, chain>>

\* Client.getVersion resolves: the first .then (lines 148-168) computes the
\* cluster version, sends the request for the core group and asks for /apis.
VersionResolves ==
    /\ build.pc = "version"
    /\ build' = [build EXCEPT !.pc = "apis",
                              !.clusterVer = PrettifyVersion(build.gitVersion, 2),
                              !.reqs = << Request(CoreV1, Undefined) >>]
    /\ UNCHANGED <<apiMaps, last, chain>>

\* Client.getVersion rejects: both .then are skipped, the .catch of line 187
\* rethrows and the promise of buildAPIMap rejects.
VersionRejects ==
    /\ build.pc = "version"
    /\ build' = [build EXCEPT !.pc = "rejected",
                              !.outcome = [kind |-> "error", status |-> 500]]
    /\ UNCHANGED <<apiMaps, last, chain>>

\* The /apis request resolves: lines 169-186 send one request for each
\* version of each group and wait for all the requests.
ApisResolves ==
    /\ build.pc = "apis"
    /\ build' = [build EXCEPT !.pc = "all",
                              !.reqs = @ \o GroupRequests(build.cluster, 1)]
    /\ UNCHANGED <<apiMaps, last, chain>>

\* The /apis request rejects: the .catch of line 187 rethrows and the promise
\* of buildAPIMap rejects, whatever the request for the core group does.
ApisRejects ==
    /\ build.pc = "apis"
    /\ build' = [build EXCEPT !.pc = "rejected",
                              !.outcome = [kind |-> "error", status |-> 500]]
    /\ UNCHANGED <<apiMaps, last, chain>>

\* A variant in which the first failure stops the run: a response that
\* arrives after it is not folded.
Respond_StopAfterError(i) ==
    /\ build.reqs[i].status = "pending"
    /\ LET r == IF build.errs > 0
                THEN [threw |-> TRUE, maps |-> apiMaps]
                ELSE MapGroupResources(apiMaps, build.clusterVer,
                                       build.reqs[i].resp, build.reqs[i].pref)
       IN  /\ apiMaps' = r.maps
           /\ last' = [op |-> "fold", clusterVer |-> build.clusterVer,
                       resp |-> build.reqs[i].resp, pref |-> build.reqs[i].pref,
                       pre |-> apiMaps, threw |-> r.threw, errs |-> build.errs]
           /\ build' = [build EXCEPT
                          !.reqs[i].fetch = "ok",
                          !.reqs[i].status = IF r.threw THEN "failed" ELSE "folded",
                          !.order = IF r.threw THEN @ ELSE Append(@, i),
                          !.errs = IF r.threw THEN @ + 1 ELSE @]
           /\ UNCHANGED chain

\* The response of request i arrives: its .then handler (lines 159-160,
\* 176-177) folds it; if the fold throws, the .catch pushes the error.
Respond(i) ==
    /\ build.reqs[i].status = "pending"
    /\ LET r == MapGroupResources(apiMaps, build.clusterVer,
                                  build.reqs[i].resp, build.reqs[i].pref)
       IN  /\ apiMaps' = r.maps
           /\ last' = [op |-> "fold", clusterVer |-> build.clusterVer,
                       resp |-> build.reqs[i].resp, pref |-> build.reqs[i].pref,
                       pre |-> apiMaps, threw |-> r.threw, errs |-> build.errs]
           /\ build' = [build EXCEPT
                          !.reqs[i].fetch = "ok",
                          !.reqs[i].status = IF r.threw THEN "failed" ELSE "folded",
                          !.order = IF r.threw THEN @ ELSE Append(@, i),
                          !.errs = IF r.threw THEN @ + 1 ELSE @]
           /\ UNCHANGED chain

\* Request i fails: its .catch (lines 161-163, 178-180) pushes the error.
FetchFails(i) ==
    /\ build.reqs[i].status = "pending"
    /\ build' = [build EXCEPT !.reqs[i].fetch = "error",
                              !.reqs[i].status = "failed", !.errs = @ + 1]
    /\ UNCHANGED <<apiMaps, last, chain>>

\* Promise.all resolves and the last .then (lines 189-192) runs.
Settle ==
    /\ build.pc = "all"
    /\ Settled(build.reqs)
    /\ build' = IF build.errs > 0
                THEN [build EXCEPT !.pc = "rejected",
                                   !.outcome = [kind |-> "errs", errs |-> build.errs]]
                ELSE [build EXCEPT !.pc = "resolved",
                                   !.outcome = [kind |-> "map",
                                                map |-> apiMaps[build.clusterVer]]]
    /\ UNCHANGED <<apiMaps, last, chain>>

NextBuild ==
    \/ BuildCall
    \/ VersionResolves
    \/ VersionRejects
    \/ ApisResolves
    \/ ApisRejects
    \/ \E i \in 1..Len(build.reqs) : Respond(i)
    \/ \E i \in 1..Len(build.reqs) : FetchFails(i)
    \/ Settle

SpecBuild == Init /\ [][NextBuild]_vars

---------------------------------------------------------------------------
(* buildChain, src/unnamed/part_001:193-230: one request at a time, each   *)
(* made once the responses of the run before it have arrived.              *)

\* src/unnamed/part_001:13
DefaultNamespace == << "d", "e", "f", "a", "u", "l", "t" >>
All == << "a", "l", "l" >>

GitVersion19 == << "v", "1", ".", "9", ".", "0" >>

\* The groups of the clusters the requests are made to.
ChainGroups ==
    << [preferredVersion |-> AppsV1, versions |-> << AppsV1 >>],
       [preferredVersion |-> RbacV1, versions |-> << RbacV1 >>] >>

\* The kubeconfig argument: two clusters of different versions, or no object.
ChainKubeconfigs ==
    { [valid |-> TRUE, groups |-> ChainGroups, gitVersion |-> g] :
        g \in {GitVersion, GitVersion19} }
    \cup { [valid |-> FALSE, groups |-> << >>, gitVersion |-> << >>] }

\* The namespace, resourceType and resourceName arguments.
ChainNamespaces == {JsUndefined, JsString(All), JsString(<< "d", "e", "v" >>)}
ChainTypes ==
    { JsString(<< "P", "o", "d" >>), JsString(Deployment),
      JsString(<< "c", "l", "u", "s", "t", "e", "r", "r", "o", "l", "e" >>),
      JsString(<< "w", "i", "d", "g", "e", "t" >>), JsString(<< >>), JsUndefined }
ChainNames == {JsUndefined, JsString(<< "w", "e", "b" >>)}

\* A call of buildChain at position pc.
ChainAt(pc, kubeconfig, namespace, resourceType, resourceName) ==
    [pc |-> pc, kubeconfig |-> kubeconfig, namespace |-> namespace,
     resourceType |-> resourceType, resourceName |-> resourceName,
     clusterVer |-> Undefined, looked |-> FALSE, hadEntry |-> FALSE,
     discovered |-> FALSE, info |-> RetUndefined,
     result |-> [kind |-> "none"], error |-> [kind |-> "none"]]

\* buildChain(kubeconfig, namespace, resourceType, resourceName) is called:
\* line 194 throws a TypeError when resourceType has no toLowerCase, and
\* getVersion (lines 156-160) throws when the kubeconfig is no object.
ChainStart(kubeconfig, namespace, resourceType, resourceName) ==
    IF resourceType.type # "string"
    THEN [ChainAt("rejected", kubeconfig, namespace, resourceType, resourceName)
            EXCEPT !.error = [kind |-> "TypeError"]]
    ELSE IF ~kubeconfig.valid
    THEN [ChainAt("rejected", kubeconfig, namespace,
                  JsString(ToLowerCase(resourceType.str)), resourceName)
            EXCEPT !.error = [kind |-> "error", status |-> 400]]
    ELSE ChainAt("version", kubeconfig, namespace,
                 JsString(ToLowerCase(resourceType.str)), resourceName)

ChainCall ==
    /\ chain.pc = "none"
    /\ Settled(build.reqs)
    /\ \E kubeconfig \in ChainKubeconfigs, namespace \in ChainNamespaces,
          resourceType \in ChainTypes, resourceName \in ChainNames :
        chain' = ChainStart(kubeconfig, namespace, resourceType, resourceName)
    /\ last' = NoCall
    /\ UNCHANGED <<apiMaps, build>>

\* getVersion rejects: the await of line 197 throws.
ChainVersionRejects ==
    /\ chain.pc = "version"
    /\ chain' = [chain EXCEPT !.pc = "rejected",
                              !.error = [kind |-> "error", status |-> 500]]
    /\ UNCHANGED <<apiMaps, last, build>>

\* getVersion resolves: lines 198-205.  Without a group info buildAPIMap is
\* called and awaited; with one, the second lookup gives it again and
\* getKubernetesClient is awaited.
ChainVersionResolves ==
    /\ chain.pc = "version"
    /\ LET clusterVer == PrettifyVersion(chain.kubeconfig.gitVersion, 2)
           apiGroupInfo == GetGroupInfo(apiMaps, JsString(clusterVer), chain.resourceType)
       IN  IF apiGroupInfo = RetUndefined
           THEN /\ chain' = [chain EXCEPT !.pc = "build", !.clusterVer = clusterVer,
                                          !.looked = TRUE,
                                          !.hadEntry = clusterVer \in DOMAIN apiMaps,
                                          !.discovered = TRUE]
                /\ build' = Started(chain.kubeconfig)
           ELSE /\ chain' = [chain EXCEPT !.pc = "client", !.clusterVer = clusterVer,
                                          !.looked = TRUE,
                                          !.hadEntry = clusterVer \in DOMAIN apiMaps,
                                          !.info = apiGroupInfo]
                /\ UNCHANGED build
    /\ UNCHANGED <<apiMaps, last>>

\* The promise of buildAPIMap rejects: the await of line 203 throws.
ChainBuildRejected ==
    /\ chain.pc = "build"
    /\ build.pc = "rejected"
    /\ chain' = [chain EXCEPT !.pc = "rejected", !.error = build.outcome]
    /\ UNCHANGED <<apiMaps, last, build>>

\* The promise of buildAPIMap resolves: lines 205-213.
ChainBuildResolved ==
    /\ chain.pc = "build"
    /\ build.pc = "resolved"
    /\ LET apiGroupInfo == GetGroupInfo(apiMaps, JsString(chain.clusterVer),
                                        chain.resourceType)
       IN  chain' = IF apiGroupInfo = RetUndefined
                    THEN [chain EXCEPT !.pc = "rejected",
                                       !.error = [kind |-> "error", status |-> 500]]
                    ELSE [chain EXCEPT !.pc = "client", !.info = apiGroupInfo]
    /\ UNCHANGED <<apiMaps, last, build>>

\* getKubernetesClient rejects (client.loadSpec fails, lines 98-120).
ChainClientRejects ==
    /\ chain.pc = "client"
    /\ chain' = [chain EXCEPT !.pc = "rejected",
                              !.error = [kind |-> "error", status |-> 500]]
    /\ UNCHANGED <<apiMaps, last, build>>

\* The version and namespaced properties of the value getGroupInfo returned:
\* the whole map of a cluster version has neither.
InfoVersion(apiGroupInfo) ==
    IF apiGroupInfo.kind = "info" THEN apiGroupInfo.info.version ELSE Undefined
InfoNamespaced(apiGroupInfo) ==
    apiGroupInfo.kind = "info" /\ apiGroupInfo.info.namespaced

\* The namespace segment of lines 218-221, Undefined when none is added.
NamespaceSegment(apiGroupInfo, namespace) ==
    IF InfoNamespaced(apiGroupInfo) /\ namespace # JsString(All)
    THEN IF Truthy(namespace) /\ namespace.type = "string"
         THEN namespace.str
         ELSE DefaultNamespace
    ELSE Undefined

\* getKubernetesClient resolves: lines 216-229.  The client of a version
\* (lines 122-134) has a property for the resource type; the bare client,
\* returned when the version is undefined (line 136), has none, and calling
\* the undefined property with the resource name throws.
ChainClientResolves ==
    /\ chain.pc = "client"
    /\ LET version == InfoVersion(chain.info)
           named == Truthy(chain.resourceName) /\ chain.resourceName.type = "string"
       IN  chain' =
             IF version = Undefined /\ named
             THEN [chain EXCEPT !.pc = "rejected", !.error = [kind |-> "TypeError"]]
             ELSE [chain EXCEPT
                     !.pc = "resolved",
                     !.result =
                        [kind |-> IF version = Undefined THEN "undefined" ELSE "chain",
                         client |-> version,
                         namespace |-> NamespaceSegment(chain.info, chain.namespace),
                         resource |-> chain.resourceType.str,
                         name |-> IF named THEN chain.resourceName.str ELSE Undefined]]
    /\ UNCHANGED <<apiMaps, last, build>>

\* The caller takes the chain or the error; the next request can be made.
ChainReturn ==
    /\ chain.pc \in {"resolved", "rejected"}
    /\ chain' = NoChain
    /\ UNCHANGED <<apiMaps, last, build>>

NextChain ==
    \/ ChainCall
    \/ ChainVersionRejects
    \/ ChainVersionResolves
    \/ VersionResolves
    \/ VersionRejects
    \/ ApisResolves
    \/ ApisRejects
    \/ \E i \in 1..Len(build.reqs) : Respond(i)
    \/ \E i \in 1..Len(build.reqs) : FetchFails(i)
    \/ Settle
    \/ ChainBuildRejected
    \/ ChainBuildResolved
    \/ ChainClientRejects
    \/ ChainClientResolves
    \/ ChainReturn

SpecChain == Init /\ [][NextChain]_vars

---------------------------------------------------------------------------
(* A second request to the same cluster while the first request awaits     *)
(* buildAPIMap (src/unnamed/part_001:203).  The second call is followed up *)
(* to its lookup of line 201; the discovery it runs itself when the lookup *)
(* gives nothing is not followed.                                          *)

\* The resource types of the second request.
SecondTypes == { JsString(<< "p", "o", "d" >>), JsString(Deployment) }

\* The promise of the run under way is settled and none of its requests is
\* pending.
RunComplete == build.pc \in {"resolved", "rejected"} /\ Settled(build.reqs)

\* getVersion of the second call resolves: lines 198-201 look the resource
\* type up in the cache as the run of the first call has left it so far.
SecondLookup ==
    /\ chain.pc = "build"
    /\ \E resourceType \in SecondTypes :
        LET clusterVer == PrettifyVersion(chain.kubeconfig.gitVersion, 2)
        IN  last' = [op |-> "chainlookup",
                     clusterVersion |-> JsString(clusterVer),
                     resourceType |-> resourceType,
                     ret |-> GetGroupInfo(apiMaps, JsString(clusterVer), resourceType),
                     complete |-> RunComplete]
    /\ UNCHANGED <<apiMaps, build, chain>>

NextRace ==
    \/ ChainCall
    \/ ChainVersionRejects
    \/ ChainVersionResolves
    \/ VersionResolves
    \/ VersionRejects
    \/ ApisResolves
    \/ ApisRejects
    \/ \E i \in 1..Len(build.reqs) : Respond(i)
    \/ \E i \in 1..Len(build.reqs) : FetchFails(i)
    \/ Settle
    \/ ChainBuildRejected
    \/ ChainBuildResolved
    \/ ChainClientRejects
    \/ ChainClientResolves
    \/ SecondLookup

SpecRace == Init /\ [][NextRace]_vars

---------------------------------------------------------------------------
(* A discovery run with the loop of mapGroupResources taken one resource   *)
(* at a time.  A callback of the event loop starts only when no other is   *)
(* running, and mapGroupResources has no await: once the handler of a      *)
(* response has started, it runs to its end.                               *)

\* A variant in which a callback can start while a handler is in its loop.
Idle_Always == TRUE

\* No handler is running.
Idle == \A i \in 1..Len(build.reqs) : build.reqs[i].status # "folding"

\* buildAPIMap(kubeconfig) is called.
StepsBuildCall ==
    /\ build.pc = "none"
    /\ \E kubeconfig \in ChainKubeconfigs : build' = Started(kubeconfig)
    /\ UNCHANGED <<apiMaps, last, chain>>

\* The response of request i arrives and its .then handler starts: lines
\* 21-26.  A groupVersion outside the grammar makes line 23 throw, and the
\* .catch pushes the error.
StartFold(i) ==
    /\ Idle
    /\ build.reqs[i].status = "pending"
    /\ LET resourcesResp == build.reqs[i].resp
           clusterVer == build.clusterVer
       IN  IF ExtractVer(resourcesResp.groupVersion) = NoMatch
           THEN /\ build' = [build EXCEPT !.reqs[i].fetch = "ok",
                                          !.reqs[i].status = "failed",
                                          !.errs = @ + 1]
                /\ last' = [op |-> "fold", clusterVer |-> clusterVer,
                            resp |-> resourcesResp, pref |-> build.reqs[i].pref,
                            pre |-> apiMaps, threw |-> TRUE, errs |-> build.errs]
                /\ UNCHANGED apiMaps
           ELSE /\ build' = [build EXCEPT !.reqs[i].fetch = "ok",
                                          !.reqs[i].status = "folding"]
                /\ apiMaps' = IF clusterVer \in DOMAIN apiMaps THEN apiMaps
                              ELSE Put(apiMaps, clusterVer, EmptyMap)
                /\ last' = [op |-> "folding", req |-> i, pos |-> 1,
                            clusterVer |-> clusterVer, resp |-> resourcesResp,
                            pref |-> build.reqs[i].pref, pre |-> apiMaps,
                            errs |-> build.errs]
    /\ UNCHANGED chain

\* One iteration of the loop of lines 28-52.
StepFold ==
    /\ last.op = "folding"
    /\ last.pos <= Len(last.resp.resources)
    /\ apiMaps' = [apiMaps EXCEPT ![last.clusterVer] =
                      MapResource(@, last.resp.resources[last.pos],
                                  last.resp.groupVersion,
                                  ExtractVer(last.resp.groupVersion), last.pref)]
    /\ last' = [last EXCEPT !.pos = @ + 1]
    /\ UNCHANGED <<build, chain>>

\* The loop is over: line 54 returns and the handler ends.
EndFold ==
    /\ last.op = "folding"
    /\ last.pos > Len(last.resp.resources)
    /\ build' = [build EXCEPT !.reqs[last.req].status = "folded",
                              !.order = Append(@, last.req)]
    /\ last' = [op |-> "fold", clusterVer |-> last.clusterVer, resp |-> last.resp,
                pref |-> last.pref, pre |-> last.pre, threw |-> FALSE,
                errs |-> last.errs]
    /\ UNCHANGED <<apiMaps, chain>>

NextSteps ==
    \/ Idle /\ StepsBuildCall
    \/ Idle /\ VersionResolves
    \/ Idle /\ VersionRejects
    \/ Idle /\ ApisResolves
    \/ Idle /\ ApisRejects
    \/ \E i \in 1..Len(build.reqs) : StartFold(i)
    \/ \E i \in 1..Len(build.reqs) : Idle /\ FetchFails(i)
    \/ Idle /\ Settle
    \/ StepFold
    \/ EndFold

SpecSteps == Init /\ [][NextSteps]_vars

---------------------------------------------------------------------------
(* The comparator on its own: the two tokens are drawn at the start and    *)
(* one step applies compareAPIVersions to them.                            *)

\* The decimal numeral of n, as a string.
RECURSIVE ToDecimal(_)
ToDecimal(n) ==
    IF n < 10 THEN << DigitChars[n + 1] >>
    ELSE ToDecimal(n \div 10) \o << DigitChars[(n % 10) + 1] >>

Numerals == { ToDecimal(n) : n \in 0..MaxNum }

\* The version tokens v<major> and v<major><alpha|beta><minor>.
VersionTokens ==
    { << "v" >> \o M : M \in Numerals }
    \cup { << "v" >> \o M \o l \o m : M \in Numerals, l \in {Alpha, Beta}, m \in Numerals }

InitCmp ==
    /\ apiMaps = << >>
    /\ build = NoBuild
    /\ chain = NoChain
    /\ last \in { [op |-> "compare", ver1 |-> a, ver2 |-> b, done |-> FALSE, ret |-> 0] :
                    a \in VersionTokens, b \in VersionTokens }

Compare ==
    /\ last.op = "compare"
    /\ ~last.done
    /\ last' = [last EXCEPT !.done = TRUE,
                            !.ret = CompareAPIVersions(last.ver1, last.ver2)]
    /\ UNCHANGED <<apiMaps, build, chain>>

NextCmp == Compare

SpecCmp == InitCmp /\ [][NextCmp]_vars

---------------------------------------------------------------------------
(* updateOrCreate, src/unnamed/part_001:289-306: one call at a time.  The  *)
(* call runs buildChain and then, in place of the chain's record, keeps    *)
(* the requests it has sent.                                               *)

MergePatch == "application/merge-patch+json"

\* The resourceSpec argument: kind, metadata.namespace and metadata.name.
ResourceSpecs ==
    [kind : { JsString(<< "P", "o", "d" >>), JsString(<< "W", "i", "d", "g", "e", "t" >>),
              JsUndefined },
     namespace : { JsUndefined, JsString(<< "d", "e", "v" >>) },
     name : ChainNames]

\* What a request is rejected with: objects with a code, an object without
\* one, and a value that is no object.
RequestErrors ==
    { [type |-> "object", coded |-> TRUE, code |-> c] : c \in {404, 409, 500} }
    \cup { [type |-> "object", coded |-> FALSE, code |-> 0],
           [type |-> "string", coded |-> FALSE, code |-> 0] }

\* Another test than that of line 301: every rejection counts as not found.
IsNotFound_AnyError(err) == TRUE

\* The test of line 301.
IsNotFound(err) == err.type = "object" /\ err.coded /\ err.code = 404

\* A call of updateOrCreate that has its request chain, at position pc.
UpsertAt(pc, reqChain, requests, patch, outcome) ==
    [pc |-> pc, reqChain |-> reqChain, requests |-> requests, patch |-> patch,
     outcome |-> outcome]

NoOutcome == [kind |-> "none"]

\* updateOrCreate(kubeconfig, resourceSpec) is called: lines 290-293.  Line
\* 291 throws a TypeError when kind has no toLowerCase; otherwise buildChain
\* is called with the namespace, the lower-cased kind and the name.
UpsertCall ==
    /\ chain.pc = "none"
    /\ Settled(build.reqs)
    /\ \E kubeconfig \in ChainKubeconfigs, resourceSpec \in ResourceSpecs :
        chain' =
            IF resourceSpec.kind.type # "string"
            THEN UpsertAt("failed", Undefined, << >>, NoOutcome, [kind |-> "TypeError"])
            ELSE ChainStart(kubeconfig, resourceSpec.namespace,
                            JsString(ToLowerCase(resourceSpec.kind.str)),
                            resourceSpec.name)
    /\ last' = NoCall
    /\ UNCHANGED <<apiMaps, build>>

\* buildChain rejects: the await of line 293 throws.
UpsertChainRejected ==
    /\ chain.pc = "rejected"
    /\ chain' = UpsertAt("failed", Undefined, << >>, NoOutcome, chain.error)
    /\ UNCHANGED <<apiMaps, last, build>>

\* buildChain resolves: line 294 sends the PATCH; with no chain to call
\* patch on, it throws a TypeError.
UpsertPatch ==
    /\ chain.pc = "resolved"
    /\ chain' =
          IF chain.result.kind = "undefined"
          THEN UpsertAt("failed", Undefined, << >>, NoOutcome, [kind |-> "TypeError"])
          ELSE UpsertAt("patching", chain.result,
                        << [method |-> "PATCH", contentType |-> MergePatch] >>,
                        NoOutcome, NoOutcome)
    /\ UNCHANGED <<apiMaps, last, build>>

\* The PATCH succeeds: the catch of line 299 does not run.
PatchResolves ==
    /\ chain.pc = "patching"
    /\ chain' = [chain EXCEPT !.pc = "done", !.patch = [kind |-> "ok"],
                              !.outcome = [kind |-> "ok"]]
    /\ UNCHANGED <<apiMaps, last, build>>

\* The PATCH fails: lines 300-304 send the POST or throw the error again.
PatchRejects ==
    /\ chain.pc = "patching"
    /\ \E err \in RequestErrors :
        chain' =
            IF IsNotFound(err)
            THEN [chain EXCEPT !.pc = "posting",
                               !.patch = [kind |-> "error", err |-> err],
                               !.requests = Append(@, [method |-> "POST",
                                                       contentType |-> ""])]
            ELSE [chain EXCEPT !.pc = "failed",
                               !.patch = [kind |-> "error", err |-> err],
                               !.outcome = [kind |-> "error", err |-> err]]
    /\ UNCHANGED <<apiMaps, last, build>>

\* The POST succeeds or fails: its promise is the one returned.
PostResolves ==
    /\ chain.pc = "posting"
    /\ chain' = [chain EXCEPT !.pc = "done", !.outcome = [kind |-> "ok"]]
    /\ UNCHANGED <<apiMaps, last, build>>

PostRejects ==
    /\ chain.pc = "posting"
    /\ \E err \in RequestErrors :
        chain' = [chain EXCEPT !.pc = "failed",
                               !.outcome = [kind |-> "error", err |-> err]]
    /\ UNCHANGED <<apiMaps, last, build>>

\* The caller takes the outcome; the next call can be made.
UpsertReturn ==
    /\ chain.pc \in {"done", "failed"}
    /\ chain' = NoChain
    /\ UNCHANGED <<apiMaps, last, build>>

NextUpsert ==
    \/ UpsertCall
    \/ ChainVersionRejects
    \/ ChainVersionResolves
    \/ VersionResolves
    \/ VersionRejects
    \/ ApisResolves
    \/ ApisRejects
    \/ \E i \in 1..Len(build.reqs) : Respond(i)
    \/ \E i \in 1..Len(build.reqs) : FetchFails(i)
    \/ Settle
    \/ ChainBuildRejected
    \/ ChainBuildResolved
    \/ ChainClientRejects
    \/ ChainClientResolves
    \/ UpsertChainRejected
    \/ UpsertPatch
    \/ PatchResolves
    \/ PatchRejects
    \/ PostResolves
    \/ PostRejects
    \/ UpsertReturn

SpecUpsert == Init /\ [][NextUpsert]_vars

---------------------------------------------------------------------------
(* removeTrailingSlash, src/utils.js:37-41, on a URL drawn at the start.   *)

\* The longest URL.
MaxUrl == 4

UrlChars == {"a", ".", "/"}
Urls == UNION { [1..n -> UrlChars] : n \in 0..MaxUrl }

\* url.substr(0, url.length - 1)
SubstrWithoutLast(url) == SubSeq(url, 1, Len(url) - 1)

\* Line 38 computes the URL without its last character and drops the value;
\* line 40 returns the argument.
RemoveTrailingSlash(url) ==
    LET dropped == IF Len(url) >= 1 /\ url[Len(url)] = "/"
                   THEN SubstrWithoutLast(url) ELSE url
    IN  url

InitSlash ==
    /\ apiMaps = << >>
    /\ build = NoBuild
    /\ chain = NoChain
    /\ last \in { [op |-> "slash", url |-> u, done |-> FALSE, ret |-> << >>] : u \in Urls }

RemoveSlash ==
    /\ last.op = "slash"
    /\ ~last.done
    /\ last' = [last EXCEPT !.done = TRUE, !.ret = RemoveTrailingSlash(last.url)]
    /\ UNCHANGED <<apiMaps, build, chain>>

NextSlash == RemoveSlash

SpecSlash == InitSlash /\ [][NextSlash]_vars

---------------------------------------------------------------------------
(* The lookup in a cache that maps a name and the same name with a trailing *)
(* 's'.                                                                    *)

Pod == << "p", "o", "d" >>
Ingress == << "i", "n", "g", "r", "e", "s", "s" >>
Ingresses == Ingress \o << "e", "s" >>

\* The entries of the responses: a resource and the resource its plural
\* names, and a resource whose plural does not end in the singular and 's'.
NameDescriptors ==
    { [name |-> Pod, namespaced |-> FALSE],
      [name |-> Pods, namespaced |-> TRUE],
      [name |-> Ingresses, namespaced |-> TRUE] }

NameResponses ==
    [groupVersion : {CoreV1, AppsV1beta1},
     resources : UNION { [1..n -> NameDescriptors] : n \in 0..MaxRes }]

\* The resource types looked up: names as mapped, in another case, without
\* the last letter, without the last two, and with a further 's'.
NameTypes ==
    { JsString(Pod), JsString(<< "P", "O", "D" >>), JsString(Pods),
      JsString(Pods \o << "s" >>), JsString(<< "p", "o" >>),
      JsString(Ingress), JsString(Ingress \o << "e" >>), JsString(Ingresses) }

\* mapGroupResources(clusterVer, resourcesResp, preferredGroupVer) runs.
FoldNames ==
    /\ last.op = "none"
    /\ \E resourcesResp \in NameResponses :
        /\ LET r == MapGroupResources(apiMaps, Key18, resourcesResp, Undefined)
           IN  /\ apiMaps' = r.maps
               /\ last' = [op |-> "fold", clusterVer |-> Key18, resp |-> resourcesResp,
                           pref |-> Undefined, pre |-> apiMaps, threw |-> r.threw]
        /\ UNCHANGED <<build, chain>>

\* getGroupInfo(clusterVersion, resourceType) runs.
LookupName ==
    /\ last.op = "none"
    /\ \E resourceType \in NameTypes :
        /\ last' = [op |-> "lookup", clusterVersion |-> JsString(Key18),
                    resourceType |-> resourceType,
                    ret |-> GetGroupInfo(apiMaps, JsString(Key18), resourceType)]
        /\ UNCHANGED <<apiMaps, build, chain>>

NextNames == FoldNames \/ LookupName \/ Return

SpecNames == Init /\ [][NextNames]_vars

---------------------------------------------------------------------------
(* The comparator on three tokens: drawn at the start, compared two by two *)
(* in one step.                                                            *)

\* The tokens of the triples: one-digit and two-digit numerals.
TripleNumerals == { ToDecimal(1), ToDecimal(2), ToDecimal(10) }
TripleTokens ==
    { << "v" >> \o M : M \in TripleNumerals }
    \cup { << "v" >> \o M \o l \o m :
             M \in TripleNumerals, l \in {Alpha, Beta}, m \in TripleNumerals }

InitTriple ==
    /\ apiMaps = << >>
    /\ build = NoBuild
    /\ chain = NoChain
    /\ last \in { [op |-> "compare3", a |-> a, b |-> b, c |-> c, done |-> FALSE,
                    ab |-> 0, bc |-> 0, ac |-> 0] :
                    a \in TripleTokens, b \in TripleTokens, c \in TripleTokens }

CompareTriple ==
    /\ last.op = "compare3"
    /\ ~last.done
    /\ last' = [last EXCEPT !.done = TRUE,
                            !.ab = CompareAPIVersions(last.a, last.b),
                            !.bc = CompareAPIVersions(last.b, last.c),
                            !.ac = CompareAPIVersions(last.a, last.c)]
    /\ UNCHANGED <<apiMaps, build, chain>>

NextTriple == CompareTriple

SpecTriple == InitTriple /\ [][NextTriple]_vars

---------------------------------------------------------------------------
(* Vocabulary of the properties.                                           *)

\* The integer a string of digits denotes.
RECURSIVE NumeralValue(_)
NumeralValue(d) ==
    IF Len(d) = 0 THEN 0
    ELSE 10 * NumeralValue(SubSeq(d, 1, Len(d) - 1)) + CodeUnit(d[Len(d)])

Sign(x) == IF x > 0 THEN 1 ELSE IF x < 0 THEN -1 ELSE 0

MajorOf(ver) == NumeralValue(VerRegexExec(ver).g2)
LabelOf(ver) == VerRegexExec(ver).g3

\* The minor numeral as an integer, an absent one below every present one.
MinorRank(ver) ==
    IF VerRegexExec(ver).g4 = Undefined THEN -1
    ELSE NumeralValue(VerRegexExec(ver).g4)

AlphaBetaPair(ver1, ver2) ==
    \/ LabelOf(ver1) = Alpha /\ LabelOf(ver2) = Beta
    \/ LabelOf(ver1) = Beta /\ LabelOf(ver2) = Alpha

Compared == last.op = "compare" /\ last.done

---------------------------------------------------------------------------
(* Properties of the comparator (checked under SpecCmp).                   *)

\* C5: for tokens whose major numerals differ as integers, the sign of the
\* comparison is the sign of the difference of the majors.
C5_MajorDecidesSign ==
    (Compared /\ MajorOf(last.ver1) # MajorOf(last.ver2))
        => Sign(last.ret) = Sign(MajorOf(last.ver1) - MajorOf(last.ver2))

\* C6: with the same major numeral, a beta token ranks above an alpha token,
\* whatever the minor numerals are.
C6_BetaAboveAlpha ==
    (Compared /\ VerRegexExec(last.ver1).g2 = VerRegexExec(last.ver2).g2)
        => /\ (LabelOf(last.ver1) = Beta /\ LabelOf(last.ver2) = Alpha) => last.ret = 1
           /\ (LabelOf(last.ver1) = Alpha /\ LabelOf(last.ver2) = Beta) => last.ret = -1

\* A beta token with a lower minor numeral than the alpha token it is compared
\* with has been ranked.
C6_Witness ==
    /\ Compared
    /\ VerRegexExec(last.ver1).g2 = VerRegexExec(last.ver2).g2
    /\ LabelOf(last.ver1) = Beta /\ LabelOf(last.ver2) = Alpha
    /\ MinorRank(last.ver1) < MinorRank(last.ver2)
    /\ last.ret = 1

\* C7: with equal major numerals and labels that are not an alpha/beta pair,
\* the tokens are ordered by their minor numerals as integers, an absent minor
\* numeral being lower than any present one.
C7_MinorDecidesAsInteger ==
    (/\ Compared
     /\ MajorOf(last.ver1) = MajorOf(last.ver2)
     /\ ~AlphaBetaPair(last.ver1, last.ver2))
        => Sign(last.ret) = Sign(MinorRank(last.ver1) - MinorRank(last.ver2))

---------------------------------------------------------------------------
(* Vocabulary of the properties of the fold and of the lookup.             *)

\* A fold has just returned without throwing.
Folded == last.op = "fold" /\ ~last.threw

MapOf(maps, clusterVer) == IF clusterVer \in DOMAIN maps THEN maps[clusterVer] ELSE EmptyMap

\* The map of the folded cluster version before and after the fold.
PreMap == MapOf(last.pre, last.clusterVer)
PostMap == MapOf(apiMaps, last.clusterVer)

\* The names the response lists that are not sub-resources.
ListedNames(resp) ==
    { resp.resources[i].name : i \in { j \in 1..Len(resp.resources) :
                                         ~HasSlash(resp.resources[j].name) } }

\* The namespaced flag of the first descriptor of the response named name.
FirstFlag(resp, name) ==
    resp.resources[CHOOSE i \in 1..Len(resp.resources) :
                      /\ resp.resources[i].name = name
                      /\ \A j \in 1..(i - 1) : resp.resources[j].name # name].namespaced

\* The comparison of the token of the folded response with the token of the
\* mapping of name before the fold.
NewAgainstOld(name) ==
    CompareAPIVersions(ExtractVer(last.resp.groupVersion), ExtractVer(PreMap[name].version))

---------------------------------------------------------------------------
(* Properties of a discovery run (checked under SpecBuild).                *)

\* The cluster of the scenario: apps serves v1beta1 and v1 and prefers v1.
C1_Groups == << [preferredVersion |-> AppsV1, versions |-> << AppsV1beta1, AppsV1 >>] >>

\* C1: from an empty cache, after the folds of the core response (pods), of
\* apps/v1beta1 (deployments) and of apps/v1 (deployments), the last two with
\* preferred apps/v1, in this order, the lookup of 'deployment' returns
\* {apps/v1, namespaced}.
C1_ScenarioLookup ==
    (build.cluster = C1_Groups /\ build.order = << 1, 2, 3 >>)
        => GetGroupInfo(apiMaps, JsString(Key18), JsString(Deployment))
             = RetInfo([version |-> AppsV1, namespaced |-> TRUE])

\* C2: after the fold of a response whose groupVersion is the preferred
\* version passed with it, every resource it lists is mapped to that version.
C2_PreferredInstalled ==
    (Folded /\ last.pref # Undefined /\ last.resp.groupVersion = last.pref)
        => \A n \in ListedNames(last.resp) :
              n \in DOMAIN PostMap /\ PostMap[n].version = last.pref

\* The preferred versions the groups of the cluster declare.
DeclaredPreferred ==
    { build.cluster[g].preferredVersion : g \in 1..Len(build.cluster) }

\* C3 as stated: a mapping whose group-version is a group's declared preferred
\* version is left unchanged by every fold of a response that lists the
\* resource, whatever preferred version is passed with it.
C3_StickyUnderEveryFold ==
    Folded =>
        \A n \in ListedNames(last.resp) \cap DOMAIN PreMap :
            PreMap[n].version \in DeclaredPreferred => PostMap[n] = PreMap[n]

\* C3 as amended: a mapping whose group-version is the preferred version
\* passed with the fold is left unchanged by the fold, whatever the
\* group-version of the response is.
C3_StickyUnderSamePreferred ==
    Folded =>
        \A n \in DOMAIN PreMap :
            (last.pref # Undefined /\ PreMap[n].version = last.pref)
                => (n \in DOMAIN PostMap /\ PostMap[n] = PreMap[n])

\* A response with a comparator-GREATER token than the mapped preferred
\* version has been folded with that preferred version.
C3_Witness ==
    /\ Folded
    /\ \E n \in ListedNames(last.resp) \cap DOMAIN PreMap :
          /\ PreMap[n].version = last.pref
          /\ NewAgainstOld(n) > 0
          /\ PostMap[n] = PreMap[n]

\* The folds of the requests reqs in the order order[k..], on the cache maps.
RECURSIVE FoldInOrder(_, _, _, _, _)
FoldInOrder(maps, clusterVer, reqs, order, k) ==
    IF k > Len(order) THEN maps
    ELSE FoldInOrder(MapGroupResources(maps, clusterVer, reqs[order[k]].resp,
                                       reqs[order[k]].pref).maps,
                     clusterVer, reqs, order, k + 1)

OrdersOf(n) == { p \in [1..n -> 1..n] : \A i, j \in 1..n : i # j => p[i] # p[j] }

\* C4: when every response of the run has been folded, the map is the one
\* that every other order of the same folds gives.
C4_OrderIndependent ==
    build.pc = "resolved" =>
        \A p \in OrdersOf(Len(build.reqs)) :
            MapOf(FoldInOrder(<< >>, build.clusterVer, build.reqs, p, 1), build.clusterVer)
                = MapOf(apiMaps, build.clusterVer)

---------------------------------------------------------------------------
(* Properties of the fold and of the lookup (checked under Spec).          *)

\* C8: folding the response that has just been folded, with the same
\* arguments, leaves the cache as the first fold left it.
C8_FoldIdempotent ==
    last.op = "fold" =>
        MapGroupResources(apiMaps, last.clusterVer, last.resp, last.pref).maps = apiMaps

\* A fold has replaced a mapping and has listed a resource twice.
C8_Witness ==
    /\ Folded
    /\ \E n \in DOMAIN PreMap : PostMap[n] # PreMap[n]
    /\ Len(last.resp.resources) = 2
    /\ last.resp.resources[1].name = last.resp.resources[2].name
    /\ last.resp.resources[1].namespaced # last.resp.resources[2].namespaced

\* C9: a mapping whose group-version is not the preferred version of the fold
\* is replaced, both fields together, when the token of the response is
\* comparator-GREATER than its token, and is left as it was otherwise.
C9_ReplacedIffGreater ==
    Folded =>
        \A n \in ListedNames(last.resp) \cap DOMAIN PreMap :
            PreMap[n].version # last.pref =>
                IF NewAgainstOld(n) > 0
                THEN PostMap[n] = [version |-> last.resp.groupVersion,
                                   namespaced |-> FirstFlag(last.resp, n)]
                ELSE PostMap[n] = PreMap[n]

\* A fold has replaced both the group-version and the namespaced flag.
C9_Witness ==
    /\ Folded
    /\ \E n \in ListedNames(last.resp) \cap DOMAIN PreMap :
          /\ PreMap[n].version # last.pref
          /\ NewAgainstOld(n) > 0
          /\ PostMap[n].version # PreMap[n].version
          /\ PostMap[n].namespaced # PreMap[n].namespaced

\* C10: in a known cluster version where name+'s' is mapped and name is not,
\* the lookup of name returns the mapping the lookup of name+'s' returns.
C10_PluralFallback ==
    (/\ last.op = "lookup"
     /\ last.clusterVersion.type = "string"
     /\ last.clusterVersion.str \in DOMAIN apiMaps
     /\ last.resourceType.type = "string"
     /\ (last.resourceType.str \o << "s" >>) \in DOMAIN apiMaps[last.clusterVersion.str]
     /\ last.resourceType.str \notin DOMAIN apiMaps[last.clusterVersion.str])
        => /\ last.ret = GetGroupInfo(apiMaps, last.clusterVersion,
                                      JsString(last.resourceType.str \o << "s" >>))
           /\ last.ret = RetInfo(apiMaps[last.clusterVersion.str]
                                        [last.resourceType.str \o << "s" >>])

\* 'pod' has been looked up where only 'pods' is mapped.
C10_Witness ==
    /\ last.op = "lookup"
    /\ last.clusterVersion = JsString(Key18)
    /\ last.resourceType = JsString(<< "p", "o", "d" >>)
    /\ Key18 \in DOMAIN apiMaps
    /\ Pods \in DOMAIN apiMaps[Key18]
    /\ last.ret = RetInfo(apiMaps[Key18][Pods])

\* Whether the descriptor names a resource and not one of its sub-routes.
NotSubResource(resource) == ~HasSlash(resource.name)

\* The response without the descriptors of sub-routes.
WithoutSubResources(resp) ==
    [resp EXCEPT !.resources = SelectSeq(@, NotSubResource)]

\* C11: no key of a map of the cache holds a '/', and a fold leaves the cache
\* as the fold of the response without its sub-route descriptors leaves it:
\* such a descriptor creates and changes no entry, under its full name, its
\* parent name or its suffix.
C11_SubResourcesExcluded ==
    /\ \A k \in DOMAIN apiMaps : \A n \in DOMAIN apiMaps[k] : ~HasSlash(n)
    /\ last.op = "fold" =>
          apiMaps = MapGroupResources(last.pre, last.clusterVer,
                                      WithoutSubResources(last.resp), last.pref).maps

\* 'pods/log' alone has been folded from a response whose token is
\* comparator-GREATER than the one 'pods' is mapped to.
C11_Witness ==
    /\ Folded
    /\ \E i \in 1..Len(last.resp.resources) : last.resp.resources[i].name = PodsLog
    /\ ListedNames(last.resp) = {}
    /\ Pods \in DOMAIN PreMap
    /\ CompareAPIVersions(ExtractVer(PreMap[Pods].version),
                          ExtractVer(last.resp.groupVersion)) < 0
    /\ PostMap = PreMap

\* A lookup with two string arguments has returned.
LookedUp ==
    /\ last.op = "lookup"
    /\ last.clusterVersion.type = "string"
    /\ last.resourceType.type = "string"

\* C12: the lookup in a cluster version that has no entry returns undefined
\* for every resource name, and a lookup that returns a whole map returns the
\* map of the entry of its cluster version.
C12_UnknownClusterAbsent ==
    LookedUp =>
        /\ last.clusterVersion.str \notin DOMAIN apiMaps => last.ret = RetUndefined
        /\ last.ret.kind = "map" =>
              /\ last.clusterVersion.str \in DOMAIN apiMaps
              /\ last.ret.map = apiMaps[last.clusterVersion.str]

\* 'widget' has been looked up in a cluster version never folded, while
\* another cluster version has a map.
C12_Witness ==
    /\ LookedUp
    /\ last.clusterVersion.str = Key99
    /\ last.resourceType.str = << "w", "i", "d", "g", "e", "t" >>
    /\ Key99 \notin DOMAIN apiMaps
    /\ Key18 \in DOMAIN apiMaps
    /\ apiMaps[Key18] # EmptyMap
    /\ last.ret = RetUndefined

\* C13: in a cluster version that has an entry, the lookup of a non-empty
\* name that is mapped neither as it is nor with an 's' appended returns the
\* whole map of the cluster version.
C13_DegradeToDump ==
    (/\ LookedUp
     /\ last.clusterVersion.str \in DOMAIN apiMaps
     /\ last.resourceType.str # << >>
     /\ ToLowerCase(last.resourceType.str)
           \notin DOMAIN apiMaps[last.clusterVersion.str]
     /\ (ToLowerCase(last.resourceType.str) \o << "s" >>)
           \notin DOMAIN apiMaps[last.clusterVersion.str])
        => last.ret = RetMap(apiMaps[last.clusterVersion.str])

\* 'widget' has been looked up in a cluster version that maps other
\* resources.
C13_Witness ==
    /\ LookedUp
    /\ last.clusterVersion.str = Key18
    /\ last.resourceType.str = << "w", "i", "d", "g", "e", "t" >>
    /\ Key18 \in DOMAIN apiMaps
    /\ DOMAIN apiMaps[Key18] = {Pods, Deployments}
    /\ last.ret = RetMap(apiMaps[Key18])

---------------------------------------------------------------------------
(* Properties of the outcome of a discovery run (checked under SpecBuild). *)

\* The requests whose response has been folded.
FoldedRequests == { i \in 1..Len(build.reqs) : build.reqs[i].status = "folded" }

\* The requests whose fetch has succeeded with a well-formed response.
WellFormedArrived ==
    { i \in 1..Len(build.reqs) :
        /\ build.reqs[i].fetch = "ok"
        /\ ExtractVer(build.reqs[i].resp.groupVersion) # NoMatch }

\* C14: whatever requests have failed, every well-formed response that has
\* arrived has been folded, and the map of the cluster is the fold of exactly
\* these responses, in the order of their arrival.
C14_FailuresDoNotBlock ==
    /\ FoldedRequests = WellFormedArrived
    /\ { build.order[k] : k \in 1..Len(build.order) } = FoldedRequests
    /\ build.clusterVer # Undefined =>
          MapOf(apiMaps, build.clusterVer)
            = MapOf(FoldInOrder(<< >>, build.clusterVer, build.reqs, build.order, 1),
                    build.clusterVer)

\* A response has been folded into the map after another request of the run
\* had failed.
C14_Witness ==
    /\ build.pc = "all"
    /\ Folded
    /\ last.errs > 0
    /\ PostMap # PreMap

\* buildAPIMap was called with a kubeconfig object.
ValidKubeconfig == build.cluster # << >>

\* The first .then has run: Client.getVersion has resolved.
VersionDetected == build.clusterVer # Undefined

\* C15: a run started with a valid kubeconfig is rejected only when the
\* detection of the cluster version has failed.
C15_RejectsOnlyOnVersionFailure ==
    (build.pc = "rejected" /\ ValidKubeconfig) => ~VersionDetected

\* Promise.all has resolved and the last .then has delivered the outcome.
Delivered == build.outcome.kind \in {"errs", "map"}

\* C16: the outcome of a run in which a request has failed holds the failures,
\* one for each failed request, and the map built from the folds; the outcome
\* of a run without a failure is the map alone.
C16_FailuresWithMap ==
    Delivered =>
        IF build.errs > 0
        THEN /\ "errs" \in DOMAIN build.outcome
             /\ build.outcome.errs
                   = Cardinality({ i \in 1..Len(build.reqs) : build.reqs[i].status = "failed" })
             /\ "map" \in DOMAIN build.outcome
             /\ build.outcome.map = MapOf(apiMaps, build.clusterVer)
        ELSE build.outcome = [kind |-> "map", map |-> MapOf(apiMaps, build.clusterVer)]

\* C17: when the promise of the run has been resolved or rejected, every
\* request the run has issued has been folded or recorded as a failure.
C17_OutcomeAfterAllFolds ==
    build.pc \in {"resolved", "rejected"} => Settled(build.reqs)

---------------------------------------------------------------------------
(* Properties of the cache of two cluster versions (checked under          *)
(* SpecKeys).                                                              *)

\* C18: no step removes the entry of a cluster version from the cache or the
\* mapping of a resource name from the map of a cluster version.
C18_NeverEvicted ==
    [][\A k \in DOMAIN apiMaps :
          /\ k \in DOMAIN apiMaps'
          /\ \A n \in DOMAIN apiMaps[k] : n \in DOMAIN apiMaps'[k]]_vars

\* A fold has replaced a mapping of one cluster version while both cluster
\* versions map resources that the response does not list.
C18_Witness ==
    /\ Folded
    /\ \A k \in ClusterKeys :
          k \in DOMAIN last.pre /\ DOMAIN last.pre[k] = {Pods, Deployments}
    /\ Cardinality(ListedNames(last.resp)) = 1
    /\ PostMap # PreMap

---------------------------------------------------------------------------
(* Properties of buildChain (checked under SpecChain).                     *)

\* C19: a request that has looked its resource type up has run buildAPIMap
\* exactly when the cache had no entry for the version of its cluster at the
\* time of the lookup.
C19_DiscoveryIffNoEntry ==
    (chain.pc # "none" /\ chain.looked) => (chain.discovered <=> ~chain.hadEntry)

\* C20: the chain of a request made without a namespace has no namespace
\* segment, whether the resource is namespaced or not.
C20_NoNamespaceNoSegment ==
    (chain.pc = "resolved" /\ ~Truthy(chain.namespace))
        => chain.result.namespace = Undefined

\* buildChain was called with a kubeconfig object and nothing else.
OnlyKubeconfig ==
    /\ chain.pc # "none"
    /\ chain.kubeconfig.valid
    /\ chain.namespace = JsUndefined
    /\ chain.resourceType = JsUndefined
    /\ chain.resourceName = JsUndefined

\* C21: a call with only a kubeconfig raises no error of its own and, when
\* it completes, returns the bare client.
C21_BareClient ==
    OnlyKubeconfig =>
        /\ chain.error.kind # "TypeError"
        /\ chain.pc = "resolved" => chain.result.kind = "client"

---------------------------------------------------------------------------
(* Further properties of the lookup and of the fold (checked under Spec).  *)

\* C22: the lookup of a known cluster version without a resource type
\* returns the whole map of the cluster version.
C22_NoTypeGivesWholeMap ==
    (/\ last.op = "lookup"
     /\ last.clusterVersion.type = "string"
     /\ last.clusterVersion.str \in DOMAIN apiMaps
     /\ last.resourceType = JsUndefined)
        => last.ret = RetMap(apiMaps[last.clusterVersion.str])

\* C23: the fold of a response whose groupVersion is outside the grammar
\* throws and leaves the cache as it was: no entry is created for the cluster
\* version and no mapping is changed.
C23_MalformedLeavesCache ==
    (last.op = "fold" /\ ExtractVer(last.resp.groupVersion) = NoMatch)
        => last.threw /\ apiMaps = last.pre

\* 'apps/1' listing resources has been folded into a cluster version that
\* had no entry.
C23_Witness ==
    /\ last.op = "fold"
    /\ last.resp.groupVersion = AppsNoV
    /\ ListedNames(last.resp) # {}
    /\ last.clusterVer \notin DOMAIN last.pre
    /\ last.threw
    /\ last.clusterVer \notin DOMAIN apiMaps

---------------------------------------------------------------------------
(* Properties of concurrent requests (checked under SpecRace).             *)

\* C24: a request that gets a value for its resource type from the cache,
\* and goes on with it, reads a map whose discovery run is complete.
C24_NoPartialMapRead ==
    (last.op = "chainlookup" /\ last.ret # RetUndefined) => last.complete

---------------------------------------------------------------------------
(* Properties of the steps of the fold (checked under SpecSteps).          *)

\* The requests whose handler is in the loop of mapGroupResources.
Folding == { i \in 1..Len(build.reqs) : build.reqs[i].status = "folding" }

\* The cache left by the first k resources of the fold under way.
PartialFold(k) ==
    LET created == IF last.clusterVer \in DOMAIN last.pre THEN last.pre
                   ELSE Put(last.pre, last.clusterVer, EmptyMap)
    IN  [created EXCEPT ![last.clusterVer] =
           MapResourcesFrom(@, SubSeq(last.resp.resources, 1, k), 1,
                            last.resp.groupVersion,
                            ExtractVer(last.resp.groupVersion), last.pref)]

\* C25: at most one fold is under way; between two of its resources the
\* cache is what the fold itself has made of it so far, and at its end the
\* cache is what the fold gives as one step.
C25_FoldsSerialized ==
    /\ Cardinality(Folding) <= 1
    /\ last.op = "folding" =>
          /\ Folding = {last.req}
          /\ apiMaps = PartialFold(last.pos - 1)
    /\ Folded =>
          apiMaps = MapGroupResources(last.pre, last.clusterVer, last.resp, last.pref).maps

\* A fold is between its two resources while the response of another
\* request of the run is outstanding.
C25_Witness ==
    /\ last.op = "folding"
    /\ Len(last.resp.resources) = 2
    /\ last.pos = 2
    /\ apiMaps # last.pre
    /\ \E j \in 1..Len(build.reqs) : build.reqs[j].status = "pending"

---------------------------------------------------------------------------
(* Further properties of the cache of two cluster versions (checked under  *)
(* SpecKeys).                                                              *)

\* The cache maps with the entries of the cluster versions in keys only.
Restrict(maps, keys) == [k \in DOMAIN maps \cap keys |-> maps[k]]

\* C26: a fold into a cluster version leaves the entry of every other
\* cluster version as it was, and gives its own cluster version the map that
\* the same fold gives on a cache that holds this cluster version alone; so
\* the map of a cluster version is the fold of its own responses, in their
\* order, however the folds of the other cluster versions are interleaved.
C26_FoldsOfOtherKeysApart ==
    last.op = "fold" =>
        /\ DOMAIN apiMaps \subseteq DOMAIN last.pre \cup {last.clusterVer}
        /\ \A k \in DOMAIN last.pre \ {last.clusterVer} :
              k \in DOMAIN apiMaps /\ apiMaps[k] = last.pre[k]
        /\ Restrict(apiMaps, {last.clusterVer})
              = MapGroupResources(Restrict(last.pre, {last.clusterVer}),
                                  last.clusterVer, last.resp, last.pref).maps

\* A fold has changed the map of one cluster version while the other
\* cluster version has a different map, with a mapping of the same resource.
C26_Witness ==
    /\ Folded
    /\ last.clusterVer = Key99
    /\ Key18 \in DOMAIN last.pre /\ Key99 \in DOMAIN last.pre
    /\ \E n \in ListedNames(last.resp) :
          /\ n \in DOMAIN last.pre[Key18] /\ n \in DOMAIN last.pre[Key99]
          /\ last.pre[Key18][n] # last.pre[Key99][n]
          /\ apiMaps[Key99][n] # last.pre[Key99][n]
          /\ apiMaps[Key18][n] = last.pre[Key18][n]

---------------------------------------------------------------------------
(* Properties of the comparator on three tokens (checked under SpecTriple). *)

\* C27: when a does not compare greater than b, and b does not compare
\* greater than c, a does not compare greater than c.
C27_Transitive ==
    (last.op = "compare3" /\ last.done /\ last.ab <= 0 /\ last.bc <= 0)
        => last.ac <= 0

---------------------------------------------------------------------------
(* Properties of the order of the lookup (checked under SpecNames).        *)

\* C28: a lookup in a known cluster version returns the mapping of the
\* lower-cased name when that name is mapped, whether or not its plural is
\* mapped too; the mapping of the name with a trailing 's' when only that is
\* mapped; and no mapping at all when neither is mapped, whatever other
\* names are.
C28_ExactThenPluralOnly ==
    (/\ last.op = "lookup"
     /\ last.clusterVersion.type = "string"
     /\ last.clusterVersion.str \in DOMAIN apiMaps
     /\ last.resourceType.type = "string"
     /\ last.resourceType.str # << >>)
        => LET m == apiMaps[last.clusterVersion.str]
               lowered == ToLowerCase(last.resourceType.str)
               plural == lowered \o << "s" >>
           IN  /\ lowered \in DOMAIN m => last.ret = RetInfo(m[lowered])
               /\ (lowered \notin DOMAIN m /\ plural \in DOMAIN m)
                     => last.ret = RetInfo(m[plural])
               /\ (lowered \notin DOMAIN m /\ plural \notin DOMAIN m)
                     => last.ret.kind # "info"

\* A name and its plural are mapped differently, and the lookup of the name
\* has returned the mapping of the name.
C28_Witness ==
    /\ last.op = "lookup"
    /\ Key18 \in DOMAIN apiMaps
    /\ ToLowerCase(last.resourceType.str) = Pod
    /\ Pod \in DOMAIN apiMaps[Key18] /\ Pods \in DOMAIN apiMaps[Key18]
    /\ apiMaps[Key18][Pod] # apiMaps[Key18][Pods]
    /\ last.ret = RetInfo(apiMaps[Key18][Pod])

---------------------------------------------------------------------------
(* Further properties of buildChain (checked under SpecChain).             *)

\* C29: once discovery has run and resolved, a request for a resource type
\* that the map of the cluster version holds neither under its name nor
\* under its plural is rejected with the error of lines 206-210; and a
\* request goes on to the client only with the mapping of one resource.
C29_UnmappedRaises ==
    /\ (chain.pc \in {"client", "resolved", "rejected"}
            /\ chain.discovered /\ build.pc = "resolved")
          => LET m == MapOf(apiMaps, chain.clusterVer)
                 lowered == chain.resourceType.str
                 plural == lowered \o << "s" >>
             IN  (lowered \notin DOMAIN m /\ plural \notin DOMAIN m)
                    => /\ chain.pc = "rejected"
                       /\ chain.error = [kind |-> "error", status |-> 500]
    /\ chain.pc \in {"client", "resolved"} => chain.info.kind = "info"

---------------------------------------------------------------------------
(* Properties of updateOrCreate (checked under SpecUpsert).                *)

\* The call has got its request chain or has failed before.
InUpsert == chain.pc \in {"patching", "posting", "done", "failed"}

Posted == \E i \in 1..Len(chain.requests) : chain.requests[i].method = "POST"

\* C30: the requests a call sends are a merge PATCH, then at most a POST;
\* there is a POST exactly when the PATCH was rejected with code 404; after
\* a PATCH that succeeded the call is done without a POST; and after a PATCH
\* rejected with anything else the call fails with what the PATCH was
\* rejected with, without a POST.
C30_PatchThenPostOn404 ==
    InUpsert =>
        /\ Len(chain.requests) <= 2
        /\ Len(chain.requests) >= 1
              => chain.requests[1] = [method |-> "PATCH", contentType |-> MergePatch]
        /\ Len(chain.requests) = 2 => chain.requests[2].method = "POST"
        /\ Posted <=> (/\ chain.patch.kind = "error"
                       /\ chain.patch.err.type = "object"
                       /\ chain.patch.err.coded
                       /\ chain.patch.err.code = 404)
        /\ chain.patch.kind = "ok"
              => chain.pc = "done" /\ chain.outcome = [kind |-> "ok"] /\ ~Posted
        /\ (chain.patch.kind = "error" /\ ~Posted)
              => chain.pc = "failed" /\ chain.outcome = chain.patch

\* A call is done after a PATCH rejected with code 404 and a POST.
C30_Witness ==
    /\ chain.pc = "done"
    /\ chain.patch.kind = "error"
    /\ chain.patch.err.code = 404
    /\ Len(chain.requests) = 2
    /\ chain.requests[2].method = "POST"

---------------------------------------------------------------------------
(* Provenance of the mappings (checked under SpecKeys).                    *)

\* The mapping that the fold of resp writes for its i-th resource.
MappingOf(resp, i) ==
    [version |-> resp.groupVersion, namespaced |-> resp.resources[i].namespaced]

\* C31: after every fold, each mapping of the cache is either the mapping
\* the same cluster version and name had before the fold, or the
\* group-version of the folded response together with the namespaced flag of
\* one of its entries of that name, under the cluster version folded into;
\* the preferred version passed to the fold is stored only when it is the
\* group-version of the response.  The cache starts empty, so every mapping
\* comes whole from one folded response that listed its name.
C31_Provenance ==
    last.op = "fold" =>
        \A k \in DOMAIN apiMaps : \A n \in DOMAIN apiMaps[k] :
            \/ /\ k \in DOMAIN last.pre
               /\ n \in DOMAIN last.pre[k]
               /\ apiMaps[k][n] = last.pre[k][n]
            \/ /\ k = last.clusterVer
               /\ ~last.threw
               /\ \E i \in 1..Len(last.resp.resources) :
                     /\ last.resp.resources[i].name = n
                     /\ apiMaps[k][n] = MappingOf(last.resp, i)

\* A fold given a preferred version other than the group-version of its
\* response has replaced a mapping.
C31_Witness ==
    /\ Folded
    /\ last.pref # Undefined
    /\ last.pref # last.resp.groupVersion
    /\ last.clusterVer \in DOMAIN last.pre
    /\ \E n \in DOMAIN last.pre[last.clusterVer] :
          /\ apiMaps[last.clusterVer][n] # last.pre[last.clusterVer][n]
          /\ apiMaps[last.clusterVer][n].version = last.resp.groupVersion

---------------------------------------------------------------------------
(* Further properties of the comparator (checked under SpecCmp).           *)

\* C32: the sign of the comparison of two tokens is the opposite of the sign
\* of the comparison of the same tokens in the other order, and a token
\* compares equal to itself.
C32_AntisymmetricReflexive ==
    Compared =>
        /\ Sign(last.ret) = 0 - Sign(CompareAPIVersions(last.ver2, last.ver1))
        /\ last.ver1 = last.ver2 => last.ret = 0

\* Two different tokens of the same major numeral and the same label have
\* been compared, and the first is the lower.
C32_Witness ==
    /\ Compared
    /\ last.ver1 # last.ver2
    /\ VerRegexExec(last.ver1).g2 = VerRegexExec(last.ver2).g2
    /\ LabelOf(last.ver1) = Alpha /\ LabelOf(last.ver2) = Alpha
    /\ last.ret = -1

---------------------------------------------------------------------------
(* The frame of the lookup (checked under SpecKeys).                       *)

\* C33: a call of getGroupInfo, whatever its arguments, leaves the cache as
\* it was: no mapping changes and no cluster version gets an entry.
C33_LookupReadOnly ==
    [][(last.op = "none" /\ last'.op = "lookup") => apiMaps' = apiMaps]_vars

\* A cluster version without an entry has been looked up in a cache that
\* holds another cluster version, and has no entry afterwards.
C33_Witness ==
    /\ last.op = "lookup"
    /\ last.clusterVersion = JsString(Key99)
    /\ last.resourceType = JsString(Pods)
    /\ Key18 \in DOMAIN apiMaps
    /\ Key99 \notin DOMAIN apiMaps

---------------------------------------------------------------------------
(* Properties of removeTrailingSlash (checked under SpecSlash).            *)

EndsWithSlash(url) == Len(url) >= 1 /\ url[Len(url)] = "/"

\* C34: the result is the URL without its last character when the URL ends
\* with '/', and the URL itself otherwise; for a URL with at most one
\* trailing slash, a second application changes nothing.
C34_TrailingSlashRemoved ==
    (last.op = "slash" /\ last.done) =>
        /\ last.ret = IF EndsWithSlash(last.url)
                      THEN SubSeq(last.url, 1, Len(last.url) - 1)
                      ELSE last.url
        /\ ~EndsWithSlash(SubSeq(last.url, 1, Len(last.url) - 1))
              => RemoveTrailingSlash(last.ret) = last.ret

===========================================================================
